---- MODULE Spec2Model ----
(***************************************************************************)
(* TissueLab-Scheduler: the job store (store.py), the scheduler            *)
(* (scheduler.py), the tiled executor (executor.py) and the job endpoints  *)
(* (api_jobs.py) as one state machine.                                     *)
(*                                                                         *)
(* Granularity.  The program runs on one asyncio event loop.  A coroutine  *)
(* gives up the loop only where an await really suspends.  The store lock, *)
(* _branch_locks_guard, _scheduled_guard and the lock of _user_gate are    *)
(* never held across an await, so they are never contended, and            *)
(* asyncio.Lock.acquire returns without suspending when the lock is free.  *)
(* The suspension points of a worker task are therefore: its start (after  *)
(* create_task), a contended branch lock, _user_gate.wait(), a contended   *)
(* worker semaphore, and every asyncio.to_thread of the executor.  Each    *)
(* action below is one run of a coroutine from one suspension point to the *)
(* next; a request handler never suspends between its reads and writes of  *)
(* the store and is one action.                                            *)
(*                                                                         *)
(* asyncio.Lock and asyncio.Semaphore wake their waiters in FIFO order and *)
(* hand the lock/permit to the woken waiter; a waiter of _user_gate runs   *)
(* again only after notify_all, which is sent whenever its wait predicate  *)
(* can have become true, so "the predicate holds" is its wake condition.   *)
(***************************************************************************)
EXTENDS Integers, Sequences, FiniteSets, TLC

\* ------------------------------------------------------------------ bounds
MaxTasksPerJob == 2     \* worker-task slots per job_id (one more than the code ever uses)
MaxRetries == 2         \* retry requests in the finite workload of FairSpec
MaxTileSize == 4        \* largest TILE_SIZE of the enumerations of SpecEnum
MaxSide == 9            \* largest image width and height of the enumerations of SpecEnum

\* settings.py; the two caps are scaled down (the source sets 4 and 3)
MAX_WORKERS == 1
MAX_ACTIVE_USERS == 1
TILE_SIZE == 1024
TILE_OVERLAP == 64

\* ------------------------------------------------------------------ values
None == "None"
PENDING == "PENDING"
RUNNING == "RUNNING"
SUCCEEDED == "SUCCEEDED"
FAILED == "FAILED"
CANCELED == "CANCELED"
JobState == {PENDING, RUNNING, SUCCEEDED, FAILED, CANCELED}

\* The clients' workloads: the create requests they send, in order.  Each user
\* owns one workflow and uploads one image per job (size: its <<width, height>>).
\* In the first workload jobs 1 and 2 share (workflow, branch); in the second
\* they are on two branches of one workflow; job 3 belongs to another user in
\* both, and in the second its upload is a degenerate image of height 0.
WorkflowOfUser(u) == IF u = "u1" THEN "w1" ELSE "w2"
Workloads ==
    { << [user_id |-> "u1", branch |-> None, job_type |-> "TISSUE_MASK", size |-> <<1500, 800>>],
         [user_id |-> "u1", branch |-> None, job_type |-> "TISSUE_MASK", size |-> <<800, 600>>],
         [user_id |-> "u2", branch |-> None, job_type |-> "TISSUE_MASK", size |-> <<800, 600>>] >>,
      << [user_id |-> "u1", branch |-> None, job_type |-> "TISSUE_MASK", size |-> <<1500, 800>>],
         [user_id |-> "u1", branch |-> "b", job_type |-> "TISSUE_MASK", size |-> <<800, 600>>],
         [user_id |-> "u2", branch |-> None, job_type |-> "TISSUE_MASK", size |-> <<800, 0>>] >> }
\* The workloads of the single happy job: u1's first upload is a 2048 x 1024
\* image; u1's second job is on the same branch, or on another.
TileWorkloads ==
    { << [user_id |-> "u1", branch |-> None, job_type |-> "TISSUE_MASK", size |-> <<2048, 1024>>],
         [user_id |-> "u1", branch |-> None, job_type |-> "TISSUE_MASK", size |-> <<800, 600>>],
         [user_id |-> "u2", branch |-> None, job_type |-> "TISSUE_MASK", size |-> <<800, 600>>] >>,
      << [user_id |-> "u1", branch |-> None, job_type |-> "TISSUE_MASK", size |-> <<2048, 1024>>],
         [user_id |-> "u1", branch |-> "b", job_type |-> "TISSUE_MASK", size |-> <<800, 600>>],
         [user_id |-> "u2", branch |-> None, job_type |-> "TISSUE_MASK", size |-> <<800, 600>>] >> }
\* The workloads of the branch queue: in the first, u1 has three jobs on one
\* branch of one workflow; the second has two branches and two users.
FifoWorkloads ==
    { << [user_id |-> "u1", branch |-> None, job_type |-> "TISSUE_MASK", size |-> <<800, 600>>],
         [user_id |-> "u1", branch |-> None, job_type |-> "TISSUE_MASK", size |-> <<800, 600>>],
         [user_id |-> "u1", branch |-> None, job_type |-> "TISSUE_MASK", size |-> <<800, 600>>] >>,
      << [user_id |-> "u1", branch |-> None, job_type |-> "TISSUE_MASK", size |-> <<800, 600>>],
         [user_id |-> "u1", branch |-> "b", job_type |-> "TISSUE_MASK", size |-> <<800, 600>>],
         [user_id |-> "u2", branch |-> None, job_type |-> "TISSUE_MASK", size |-> <<800, 600>>] >> }
\* The workloads of the worker cap: in the first, u1 has three jobs on three
\* branches of one workflow; the second has two branches and two users.
WorkerWorkloads ==
    { << [user_id |-> "u1", branch |-> None, job_type |-> "TISSUE_MASK", size |-> <<800, 600>>],
         [user_id |-> "u1", branch |-> "b", job_type |-> "TISSUE_MASK", size |-> <<800, 600>>],
         [user_id |-> "u1", branch |-> "c", job_type |-> "TISSUE_MASK", size |-> <<800, 600>>] >>,
      << [user_id |-> "u1", branch |-> None, job_type |-> "TISSUE_MASK", size |-> <<800, 600>>],
         [user_id |-> "u1", branch |-> None, job_type |-> "TISSUE_MASK", size |-> <<800, 600>>],
         [user_id |-> "u2", branch |-> None, job_type |-> "TISSUE_MASK", size |-> <<800, 600>>] >> }
\* The workloads with an observer: two jobs, on one branch, on two branches,
\* or of two users.
StreamWorkloads ==
    { << [user_id |-> "u1", branch |-> None, job_type |-> "TISSUE_MASK", size |-> <<800, 600>>],
         [user_id |-> "u1", branch |-> None, job_type |-> "TISSUE_MASK", size |-> <<800, 600>>] >>,
      << [user_id |-> "u1", branch |-> None, job_type |-> "TISSUE_MASK", size |-> <<800, 600>>],
         [user_id |-> "u1", branch |-> "b", job_type |-> "TISSUE_MASK", size |-> <<800, 600>>] >>,
      << [user_id |-> "u1", branch |-> None, job_type |-> "TISSUE_MASK", size |-> <<800, 600>>],
         [user_id |-> "u2", branch |-> None, job_type |-> "TISSUE_MASK", size |-> <<800, 600>>] >> }
Users == {"u1", "u2"}
NumJobs == Len(CHOOSE w \in Workloads : TRUE)
JobIds == 1 .. NumJobs
TaskIds == JobIds \X (1 .. MaxTasksPerJob)
NoTask == <<0, 0>>
\* progress is the float processed / total, kept as the fraction <<num, den>>
Zero == <<0, 1>>
Frac(n, d) == <<n, d>>
FracLeq(p, q) == p[1] * q[2] <= q[1] * p[2]
IsOne(p) == p[1] = p[2]

Min(a, b) == IF a <= b THEN a ELSE b

\* Python evaluates the argument of a call before the call: F applied to the value of x
Strict(F(_), x) == CHOOSE r \in {F(v) : v \in {x}} : TRUE

\* ------------------------------------------------------------------ state
VARIABLES
    requests,            \* the create requests of the workload
    jobs,                \* JobStore._jobs: job_id -> JobInfo
    scheduled,           \* scheduler._scheduled
    ready,               \* worker tasks created by create_task, not yet started (loop FIFO)
    pc,                  \* where each worker task is suspended ("none": no such task)
    acquired_user_slot,  \* the tasks whose local acquired_user_slot is True
    processed,           \* run_job's local counter of each task
    branch_locks,        \* scheduler._branch_locks: key -> lock (owner, FIFO of waiters)
    workers,             \* scheduler._workers: semaphore value and FIFO of waiters
    permit,              \* the tasks that hold a permit of _workers
    active_user_ids,     \* scheduler._active_user_ids
    active_user_counts,  \* scheduler._active_user_counts
    active_workers,      \* scheduler._active_workers
    changes,             \* the state changes <<job_id, from, to>> the last step made, in order
    deduped,             \* the job_id for which the last step's enqueue_job returned at line 97 (0: none)
    logging,             \* whether changes and deduped are kept (SpecLog) or left empty
    retries_left,        \* retry requests the workload of FairSpec may still send
    enqueue_order,       \* per branch key: its tasks not yet in run_job, in the order of their create_task
    stream,              \* an observer's event stream: its kind, entity, position, last_payload,
                         \* and what the step just made has yielded (sent: 0 nothing,
                         \* 1 the stream's first payload, 2 a later payload)
    enqueued,            \* history: the PENDING jobs for which enqueue_job was called since
                         \* they became PENDING (jobs), where it is kept (SpecCalls)
    tiling,              \* a call of iter_tiles: its settings, its arguments, the tiles it
                         \* yielded and their count (total), once it has run (done)
    held                 \* what a caller of JobStore.get_job keeps: the object returned (ref)
                         \* and the fields it had when it was returned (seen); none or one

vars == <<requests, jobs, scheduled, ready, pc, acquired_user_slot, processed, branch_locks,
          workers, permit, active_user_ids, active_user_counts, active_workers,
          changes, deduped, logging, retries_left, enqueue_order, enqueued, stream, held,
          tiling>>

\* The uploaded image of each job (file_id = job number): <<width, height>>.
ImageSize(file_id) == requests[file_id].size

\* Image.open(src_path).convert("RGB") returns an image only for a file whose
\* width and height are positive; for any other file it raises
Openable(size) == size[1] > 0 /\ size[2] > 0

\* The program state as one record, so that a coroutine's run between two
\* suspension points can be written as a composition of its calls.
State ==
    [jobs |-> jobs, scheduled |-> scheduled, ready |-> ready, pc |-> pc,
     acquired_user_slot |-> acquired_user_slot, processed |-> processed,
     branch_locks |-> branch_locks, workers |-> workers, permit |-> permit,
     active_user_ids |-> active_user_ids, active_user_counts |-> active_user_counts,
     active_workers |-> active_workers, changes |-> <<>>, deduped |-> 0,
     \* the disk during the step: whether os.makedirs(job_dir) succeeds (file_store.py line 66)
     job_dir_ok |-> TRUE]

EffectiveBranch(job) == IF job.branch = None THEN "__default__" ELSE job.branch
BranchKey(job) == <<job.workflow_id, EffectiveBranch(job)>>

\* where a task is before it enters run_job: created and not yet started, or
\* suspended at the branch lock, in _user_gate.wait() or at the semaphore
Waiting == {"ready", "branch", "user", "permit"}

\* a step that is not a pass of the stream's loop yields nothing
Quiet(st) == [st EXCEPT !.sent = 0]

\* The order of enqueue after a step that leaves the program in R: the tasks
\* that entered run_job or returned are taken out, and the task that
\* enqueue_job created (line 99) is put behind the others of its branch key.
Track(Q, R) ==
    LET left == {t \in TaskIds : pc[t] \in Waiting /\ R.pc[t] \notin Waiting}
        made == {t \in TaskIds : pc[t] = "none" /\ R.pc[t] = "ready"}
        KeyOf(t) == BranchKey(R.jobs[t[1]])
        Kept(k) == IF k \in DOMAIN Q THEN SelectSeq(Q[k], LAMBDA t : t \notin left) ELSE <<>>
        New(k) == IF \E t \in made : KeyOf(t) = k
                  THEN << CHOOSE t \in made : KeyOf(t) = k >>
                  ELSE <<>>
    IN [k \in DOMAIN Q \cup {KeyOf(t) : t \in made} |-> Kept(k) \o New(k)]

\* no history of the calls of enqueue_job is kept
NoCalls == [kept |-> FALSE, jobs |-> {}]

\* The calls of enqueue_job after a step that leaves the program in R: a job
\* whose state the step set to PENDING (reset_for_retry) has had no call since,
\* the job for which the step called enqueue_job (it returned at line 97, or it
\* put the job_id into _scheduled) has had one, and a job that is no longer
\* PENDING is dropped.
Called(Q, R) ==
    LET reset == {R.changes[i][1] : i \in {n \in DOMAIN R.changes : R.changes[n][3] = PENDING}}
        called == {j \in JobIds : R.deduped = j \/ (j \in R.scheduled /\ j \notin scheduled)}
    IN {j \in (Q \ reset) \cup called : R.jobs[j].state = PENDING}

Commit(S) ==
    \E R \in {S} :
        /\ jobs' = R.jobs
        /\ scheduled' = R.scheduled
        /\ ready' = R.ready
        /\ pc' = R.pc
        /\ acquired_user_slot' = R.acquired_user_slot
        /\ processed' = R.processed
        /\ branch_locks' = R.branch_locks
        /\ workers' = R.workers
        /\ permit' = R.permit
        /\ active_user_ids' = R.active_user_ids
        /\ active_user_counts' = R.active_user_counts
        /\ active_workers' = R.active_workers
        /\ changes' = IF logging THEN R.changes ELSE <<>>
        /\ deduped' = IF logging THEN R.deduped ELSE 0
        /\ enqueue_order' = Track(enqueue_order, R)
        /\ enqueued' = IF enqueued.kept THEN [enqueued EXCEPT !.jobs = Called(@, R)]
                                        ELSE enqueued
        /\ stream' = Quiet(stream)
        /\ UNCHANGED <<requests, logging, held, tiling>>

\* iter_tiles has not been called
NoTiling == [cfg |-> <<0, 0>>, img_w |-> 0, img_h |-> 0, tiles |-> <<>>, total |-> 0, done |-> FALSE]

\* no observer has subscribed; last_payload is the set of the payloads kept: none or one
NoStream ==
    [kind |-> "none", id |-> 0, user_id |-> None, pc |-> "none", last_payload |-> {},
     sent |-> 0]

\* the program after construction: empty stores, free gates, no task
InitStores ==
    /\ jobs = <<>>
    /\ scheduled = {}
    /\ ready = <<>>
    /\ pc = [t \in TaskIds |-> "none"]
    /\ acquired_user_slot = {}
    /\ processed = [t \in TaskIds |-> 0]
    /\ branch_locks = <<>>
    /\ workers = [value |-> MAX_WORKERS, waiters |-> <<>>]
    /\ permit = {}
    /\ active_user_ids = {}
    /\ active_user_counts = <<>>
    /\ active_workers = 0
    /\ changes = <<>>
    /\ deduped = 0
    /\ retries_left = MaxRetries
    /\ enqueue_order = [k \in {} |-> <<>>]
    /\ stream = NoStream
    /\ held = {}
    /\ tiling = NoTiling

InitProgram == requests \in Workloads /\ InitStores

Init == InitProgram /\ logging = FALSE /\ enqueued = NoCalls

\* ------------------------------------------------------------------ store.py
create_job(J, workflow_id, branch, user_id, file_id, job_type) ==
    LET job_id == Len(J) + 1
    IN Append(J, [job_id |-> job_id, workflow_id |-> workflow_id, user_id |-> user_id,
                  file_id |-> file_id, job_type |-> job_type, branch |-> branch, state |-> PENDING,
                  progress |-> Zero, tiles_processed |-> 0, tiles_total |-> 0,
                  result_path |-> None])

Missing(J, job_id) == job_id \notin DOMAIN J

update_job_state(J, job_id, state) ==
    IF Missing(J, job_id) THEN J ELSE [J EXCEPT ![job_id].state = state]

set_job_progress(J, job_id, progress, tiles_processed, tiles_total) ==
    IF Missing(J, job_id) THEN J
    ELSE [J EXCEPT ![job_id].progress = progress,
                   ![job_id].tiles_total = IF tiles_total > 0 THEN tiles_total ELSE @,
                   ![job_id].tiles_processed = IF tiles_processed >= 0 THEN tiles_processed ELSE @]

\* a store that forgets the result path
set_job_result_path_Drop(J, job_id, path) == J

set_job_result_path(J, job_id, path) ==
    IF Missing(J, job_id) THEN J ELSE [J EXCEPT ![job_id].result_path = path]

\* a reset that keeps the progress of the last run
reset_for_retry_KeepProgress(J, job_id) ==
    IF Missing(J, job_id) THEN [jobs |-> J, ret |-> None, raised |-> None]
    ELSE IF J[job_id].state = RUNNING THEN [jobs |-> J, ret |-> "job", raised |-> None]
    ELSE [jobs |-> [J EXCEPT ![job_id].state = PENDING, ![job_id].result_path = None],
          ret |-> "job", raised |-> None]

\* a reset that keeps the result path of the last run
reset_for_retry_KeepResult(J, job_id) ==
    IF Missing(J, job_id) THEN [jobs |-> J, ret |-> None, raised |-> None]
    ELSE IF J[job_id].state = RUNNING THEN [jobs |-> J, ret |-> "job", raised |-> None]
    ELSE [jobs |-> [J EXCEPT ![job_id].state = PENDING, ![job_id].progress = Zero],
          ret |-> "job", raised |-> None]

\* returns the store and what the call gives back: "None", or "job" (the record);
\* raised is the exception it ends with (the code raises none)
reset_for_retry(J, job_id) ==
    IF Missing(J, job_id) THEN [jobs |-> J, ret |-> None, raised |-> None]
    ELSE IF J[job_id].state = RUNNING THEN [jobs |-> J, ret |-> "job", raised |-> None]
    ELSE [jobs |-> [J EXCEPT ![job_id].state = PENDING,
                             ![job_id].progress = Zero,
                             ![job_id].result_path = None],
          ret |-> "job", raised |-> None]

\* a cancel that does not look at the state
cancel_job_if_pending_AnyState(J, job_id) ==
    IF Missing(J, job_id) THEN J ELSE [J EXCEPT ![job_id].state = CANCELED]

cancel_job_if_pending(J, job_id) ==
    IF Missing(J, job_id) THEN J
    ELSE IF J[job_id].state # PENDING THEN J
    ELSE [J EXCEPT ![job_id].state = CANCELED]

\* ------------------------------------------------------------------ executor.py
\* a row whose tiles all have the full size
RECURSIVE RowFrom_Unclipped(_, _, _, _, _)
RowFrom_Unclipped(cfg, x, y, img_w, img_h) ==
    IF x < img_w
    THEN << <<x, y, cfg[1], cfg[1]>> >>
         \o RowFrom_Unclipped(cfg, x + (cfg[1] - cfg[2]), y, img_w, img_h)
    ELSE <<>>

\* the inner loop of iter_tiles (lines 39-44) from column x of row y, under
\* the settings cfg = <<TILE_SIZE, TILE_OVERLAP>>
RECURSIVE RowFrom(_, _, _, _, _)
RowFrom(cfg, x, y, img_w, img_h) ==
    IF x < img_w
    THEN << <<x, y, Min(cfg[1], img_w - x), Min(cfg[1], img_h - y)>> >>
         \o RowFrom(cfg, x + (cfg[1] - cfg[2]), y, img_w, img_h)
    ELSE <<>>

\* the outer loop (lines 37-45) from row y
RECURSIVE RowsFrom(_, _, _, _)
RowsFrom(cfg, y, img_w, img_h) ==
    IF y < img_h
    THEN RowFrom(cfg, 0, y, img_w, img_h) \o RowsFrom(cfg, y + (cfg[1] - cfg[2]), img_w, img_h)
    ELSE <<>>

\* the loops under the settings of settings.py
TileRow(x, y, img_w, img_h) == RowFrom(<<TILE_SIZE, TILE_OVERLAP>>, x, y, img_w, img_h)
TileRows(y, img_w, img_h) == RowsFrom(<<TILE_SIZE, TILE_OVERLAP>>, y, img_w, img_h)

\* an enumeration that stops after the first row
iter_tiles_FirstRow(img_w, img_h) == TileRow(0, 0, img_w, img_h)

iter_tiles(img_w, img_h) == TileRows(0, img_w, img_h)

TilesTotal(job_id) == Len(iter_tiles(ImageSize(job_id)[1], ImageSize(job_id)[2]))

\* ------------------------------------------------------------------ workflow_store.py
\* the workflows the users created before their workload (one each), and their owners
Workflows == {WorkflowOfUser(u) : u \in Users}
OwnerOf(workflow_id) == CHOOSE u \in Users : WorkflowOfUser(u) = workflow_id

AddFrac(p, q) == <<p[1] * q[2] + q[1] * p[2], p[2] * q[2]>>

\* sum(j.progress for j in jobs)
RECURSIVE SumProgress(_, _)
SumProgress(J, js) ==
    IF js = {} THEN Zero
    ELSE LET j == CHOOSE x \in js : TRUE
         IN AddFrac(J[j].progress, SumProgress(J, js \ {j}))

\* an aggregation that does not look for an empty workflow first
get_workflow_info_NoEmptyCase(J, workflow_id) ==
    IF workflow_id \notin Workflows THEN None
    ELSE LET js == {j \in DOMAIN J : J[j].workflow_id = workflow_id}
             state == IF \E j \in js : J[j].state = FAILED THEN FAILED
                      ELSE IF \A j \in js : J[j].state = SUCCEEDED THEN SUCCEEDED
                      ELSE IF \E j \in js : J[j].state = RUNNING THEN RUNNING
                      ELSE PENDING
         IN [workflow_id |-> workflow_id, user_id |-> OwnerOf(workflow_id),
             state |-> state, percent_complete |-> Zero]

get_workflow_info(J, workflow_id) ==
    IF workflow_id \notin Workflows THEN None
    ELSE LET js == {j \in DOMAIN J : J[j].workflow_id = workflow_id}
             num_jobs == Cardinality(js)
             total == SumProgress(J, js)
             state == IF \E j \in js : J[j].state = FAILED THEN FAILED
                      ELSE IF \A j \in js : J[j].state = SUCCEEDED THEN SUCCEEDED
                      ELSE IF \E j \in js : J[j].state = RUNNING THEN RUNNING
                      ELSE PENDING
         IN IF js = {}
            THEN [workflow_id |-> workflow_id, user_id |-> OwnerOf(workflow_id),
                  state |-> PENDING, percent_complete |-> Zero]
            ELSE [workflow_id |-> workflow_id, user_id |-> OwnerOf(workflow_id),
                  state |-> state, percent_complete |-> <<total[1], total[2] * num_jobs>>]

\* ------------------------------------------------------------------ scheduler.py
\* A store call's effect on the program state: the store becomes J, and the
\* change of a job's state it made, if any, is noted in changes.
Write(S, J) ==
    LET moved == {j \in DOMAIN S.jobs : J[j].state # S.jobs[j].state}
    IN [S EXCEPT !.jobs = J,
                 !.changes = IF moved = {} THEN @
                             ELSE LET j == CHOOSE x \in moved : TRUE
                                  IN Append(@, <<j, S.jobs[j].state, J[j].state>>)]

\* a gate that admits every user
UserGateOpen_Always(S, user_id) == TRUE

\* a gate that looks at the size of the set only
UserGateOpen_CapOnly(S, user_id) == Cardinality(S.active_user_ids) < MAX_ACTIVE_USERS

UserGateOpen(S, user_id) ==
    user_id \in S.active_user_ids \/ Cardinality(S.active_user_ids) < MAX_ACTIVE_USERS

\* _acquire_user_slot once its wait loop is over (lines 27-30)
acquire_user_slot(S, user_id) ==
    LET counts == IF user_id \in S.active_user_ids
                  THEN S.active_user_counts
                  ELSE (user_id :> 0) @@ S.active_user_counts
    IN [S EXCEPT !.active_user_ids = @ \cup {user_id},
                 !.active_user_counts = [counts EXCEPT ![user_id] = @ + 1]]

\* a release that counts down but leaves the user in the set
release_user_slot_KeepUser(S, user_id) ==
    IF user_id \in DOMAIN S.active_user_counts
    THEN IF S.active_user_counts[user_id] - 1 <= 0
         THEN [S EXCEPT !.active_user_counts = [u \in DOMAIN @ \ {user_id} |-> @[u]]]
         ELSE [S EXCEPT !.active_user_counts[user_id] = @ - 1]
    ELSE S

release_user_slot(S, user_id) ==
    IF user_id \in DOMAIN S.active_user_counts
    THEN IF S.active_user_counts[user_id] - 1 <= 0
         THEN [S EXCEPT !.active_user_counts =
                            [u \in DOMAIN @ \ {user_id} |-> @[u]],
                        !.active_user_ids = @ \ {user_id}]
         ELSE [S EXCEPT !.active_user_counts[user_id] = @ - 1]
    ELSE S

FreeLock == [owner |-> NoTask, waiters |-> <<>>]

get_branch_lock(S, key) ==
    IF key \in DOMAIN S.branch_locks THEN S
    ELSE [S EXCEPT !.branch_locks = (key :> FreeLock) @@ @]

\* a lock that wakes its newest waiter
LockRelease_Last(lock) ==
    IF lock.waiters = <<>> THEN [lock EXCEPT !.owner = NoTask]
    ELSE [owner |-> lock.waiters[Len(lock.waiters)],
          waiters |-> SubSeq(lock.waiters, 1, Len(lock.waiters) - 1)]

\* asyncio.Lock.release: the first waiter, if any, is woken and owns the lock
LockRelease(lock) ==
    IF lock.waiters = <<>> THEN [lock EXCEPT !.owner = NoTask]
    ELSE [owner |-> Head(lock.waiters), waiters |-> Tail(lock.waiters)]

ReleaseBranch(S, t) ==
    [S EXCEPT !.branch_locks[BranchKey(S.jobs[t[1]])] = LockRelease(@)]

\* asyncio.Semaphore.release: the permit goes to the first waiter, if any
ReleasePermit(S, t) ==
    IF S.workers.waiters = <<>>
    THEN [S EXCEPT !.workers.value = @ + 1, !.permit = @ \ {t}]
    ELSE [S EXCEPT !.workers.waiters = Tail(@),
                   !.permit = (@ \ {t}) \cup {Head(S.workers.waiters)}]

\* an outer finally that leaves the job_id in _scheduled
WorkerExit_KeepScheduled(S, t) ==
    LET R == IF t \in S.acquired_user_slot
             THEN release_user_slot(S, S.jobs[t[1]].user_id)
             ELSE S
    IN [R EXCEPT !.acquired_user_slot = @ \ {t},
                 !.pc[t] = "none",
                 !.processed[t] = 0]

\* the outer finally of _worker (lines 87-91); the task ends
WorkerExit(S, t) ==
    LET R == IF t \in S.acquired_user_slot
             THEN release_user_slot(S, S.jobs[t[1]].user_id)
             ELSE S
    IN [R EXCEPT !.acquired_user_slot = @ \ {t},
                 !.scheduled = @ \ {t[1]},
                 !.pc[t] = "none",
                 !.processed[t] = 0]

\* a return from inside "async with _workers" that keeps the permit
ExitWithPermit_KeepPermit(S, t) ==
    LET ReleaseB(a) == ReleaseBranch(a, t)
        Exit(a) == WorkerExit(a, t)
    IN Strict(Exit, Strict(ReleaseB, S))

\* a return from inside "async with _workers" (line 81), resp. from inside
\* "async with branch_lock" only (lines 68, 75): the gates held are released
\* and the task ends
ExitWithPermit(S, t) ==
    LET ReleaseP(a) == ReleasePermit(a, t)
        ReleaseB(a) == ReleaseBranch(a, t)
        Exit(a) == WorkerExit(a, t)
    IN Strict(Exit, Strict(ReleaseB, Strict(ReleaseP, S)))

ExitWithBranch(S, t) ==
    LET ReleaseB(a) == ReleaseBranch(a, t)
        Exit(a) == WorkerExit(a, t)
    IN Strict(Exit, Strict(ReleaseB, S))

\* a checkpoint that looks only for a missing job
CanceledOrMissing_MissingOnly(S, job_id) == Missing(S.jobs, job_id)

\* the checkpoint of lines 67, 74 and 79
CanceledOrMissing(S, job_id) ==
    Missing(S.jobs, job_id) \/ S.jobs[job_id].state = CANCELED

\* run_job's end (success: lines 249-252, failure: lines 253-260), then the
\* worker's way out (lines 85-91)
RunJobEnd(S, t, ok) ==
    LET SetResult(a) == Write(a, set_job_result_path(a.jobs, t[1],
                                                     IF ok THEN "manifest.json" ELSE "error.json"))
        SetState(a) == Write(a, update_job_state(a.jobs, t[1], IF ok THEN SUCCEEDED ELSE FAILED))
        Leave(a) == [a EXCEPT !.active_workers = @ - 1]
        Exit(a) == ExitWithPermit(a, t)
    IN Strict(Exit, Strict(Leave, Strict(SetState, Strict(SetResult, S))))

\* run_job's failure path when the write of error.json itself raises (line 256):
\* set_job_result_path is not reached, the finally of line 259 sets FAILED, and
\* the exception leaves run_job and ends the worker through its finally blocks
RunJobEndUnwritten(S, t) ==
    LET SetState(a) == Write(a, update_job_state(a.jobs, t[1], FAILED))
        Leave(a) == [a EXCEPT !.active_workers = @ - 1]
        Exit(a) == ExitWithPermit(a, t)
    IN Strict(Exit, Strict(Leave, Strict(SetState, S)))

\* file_store.get_job_dir raises in line 28 of run_job, before the try of line
\* 31: the exception leaves run_job, and the worker goes out through its
\* finally blocks (lines 85-91)
RunJobRaise(S, t) ==
    LET Leave(a) == [a EXCEPT !.active_workers = @ - 1]
        Exit(a) == ExitWithPermit(a, t)
    IN Strict(Exit, Strict(Leave, S))

\* lines 78-84 of _worker and run_job up to its first to_thread;
\* opened: whether the source image could be opened
AfterPermit(S, t, opened) ==
    IF CanceledOrMissing(S, t[1])
    THEN ExitWithPermit(S, t)
    ELSE LET Enter(a) == [a EXCEPT !.active_workers = @ + 1]
             SetRunning(a) == Write(a, update_job_state(a.jobs, t[1], RUNNING))
             Open(a) == IF ~a.job_dir_ok
                        THEN RunJobRaise(a, t)
                        ELSE IF opened /\ Openable(ImageSize(a.jobs[t[1]].file_id))
                             THEN [a EXCEPT !.pc[t] = "tile", !.processed[t] = 0]
                             ELSE RunJobEnd(a, t, FALSE)
         IN Strict(Open, Strict(SetRunning, Strict(Enter, S)))

\* lines 73-77 without the wait for a permit
AfterUserSlot_NoPermit(S, t, opened) ==
    LET Go(a) == AfterPermit(a, t, opened)
    IN IF CanceledOrMissing(S, t[1])
       THEN ExitWithBranch(S, t)
       ELSE Strict(Go, [S EXCEPT !.workers.value = @ - 1, !.permit = @ \cup {t}])

\* lines 73-77
AfterUserSlot(S, t, opened) ==
    LET Go(a) == AfterPermit(a, t, opened)
    IN IF CanceledOrMissing(S, t[1])
       THEN ExitWithBranch(S, t)
       ELSE IF S.workers.value > 0 /\ S.workers.waiters = <<>>
            THEN Strict(Go, [S EXCEPT !.workers.value = @ - 1, !.permit = @ \cup {t}])
            ELSE [S EXCEPT !.workers.waiters = Append(@, t), !.pc[t] = "permit"]

\* lines 66-71 without the call of _acquire_user_slot
AfterBranchLock_NoSlot(S, t, opened) ==
    IF CanceledOrMissing(S, t[1])
    THEN ExitWithBranch(S, t)
    ELSE AfterUserSlot(S, t, opened)

\* lines 66-71
\* lines 70-71 once the gate admits the user, and what follows
UserSlotTaken(S, t, opened) ==
    LET Acquire(a) == acquire_user_slot(a, a.jobs[t[1]].user_id)
        Flag(a) == [a EXCEPT !.acquired_user_slot = @ \cup {t}]
        Go(a) == AfterUserSlot(a, t, opened)
    IN Strict(Go, Strict(Flag, Strict(Acquire, S)))

AfterBranchLock(S, t, opened) ==
    IF CanceledOrMissing(S, t[1])
    THEN ExitWithBranch(S, t)
    ELSE IF UserGateOpen(S, S.jobs[t[1]].user_id)
         THEN UserSlotTaken(S, t, opened)
         ELSE [S EXCEPT !.pc[t] = "user"]

\* lines 54-65 with a branch lock that never makes a task wait
WorkerBegin_NoWait(S, t, opened) ==
    IF Missing(S.jobs, t[1]) THEN WorkerExit(S, t)
    ELSE LET key == BranchKey(S.jobs[t[1]])
             GetLock(a) == get_branch_lock(a, key)
             Lock(a) == AfterBranchLock([a EXCEPT !.branch_locks[key].owner = t], t, opened)
         IN Strict(Lock, Strict(GetLock, S))

\* lines 54-65
WorkerBegin(S, t, opened) ==
    IF Missing(S.jobs, t[1]) THEN WorkerExit(S, t)
    ELSE LET key == BranchKey(S.jobs[t[1]])
             GetLock(a) == get_branch_lock(a, key)
             Got(a) == AfterBranchLock(a, t, opened)
             Lock(a) ==
                 IF a.branch_locks[key].owner = NoTask /\ a.branch_locks[key].waiters = <<>>
                 THEN Strict(Got, [a EXCEPT !.branch_locks[key].owner = t])
                 ELSE [a EXCEPT !.branch_locks[key].waiters = Append(@, t), !.pc[t] = "branch"]
         IN Strict(Lock, Strict(GetLock, S))

LiveTasks(S, job_id) == {t \in TaskIds : t[1] = job_id /\ S.pc[t] # "none"}

\* create_task(_worker(job_id)): the task takes the first free slot of its job
Spawn(S, job_id) ==
    LET free == {k \in 1 .. MaxTasksPerJob : S.pc[<<job_id, k>>] = "none"}
    IN IF free = {} THEN S
       ELSE LET k == CHOOSE x \in free : \A y \in free : x <= y
            IN [S EXCEPT !.pc[<<job_id, k>>] = "ready", !.ready = Append(@, <<job_id, k>>)]

\* enqueue_job without the look into _scheduled
enqueue_job_NoDedup(S, job_id) ==
    LET Create(a) == Spawn(a, job_id)
    IN Strict(Create, [S EXCEPT !.scheduled = @ \cup {job_id}])

enqueue_job(S, job_id) ==
    IF job_id \in S.scheduled THEN [S EXCEPT !.deduped = job_id]
    ELSE LET Create(a) == Spawn(a, job_id)
         IN Strict(Create, [S EXCEPT !.scheduled = @ \cup {job_id}])

\* snapshot_queue and get_queue_status_for_job (lines 101-148)
snapshot_queue(S) ==
    [active_users |-> Cardinality(S.active_user_ids), max_active_users |-> MAX_ACTIVE_USERS,
     active_workers |-> S.active_workers, max_workers |-> MAX_WORKERS]

\* a queue status that gives its reasons for a job in any state
get_queue_status_for_job_AnyState(S, job_id) ==
    IF Missing(S.jobs, job_id) THEN None
    ELSE LET job == S.jobs[job_id]
             same_branch_running ==
                 \E j \in DOMAIN S.jobs :
                     /\ BranchKey(S.jobs[j]) = BranchKey(job)
                     /\ j # job_id
                     /\ S.jobs[j].state = RUNNING
             branch == IF same_branch_running THEN <<"BRANCH">> ELSE <<>>
             user == IF /\ job.user_id \notin S.active_user_ids
                        /\ Cardinality(S.active_user_ids) >= MAX_ACTIVE_USERS
                     THEN <<"USER_SLOT">> ELSE <<>>
             worker == IF S.active_workers >= MAX_WORKERS THEN <<"WORKER">> ELSE <<>>
         IN [status |-> snapshot_queue(S), queued |-> job.state = PENDING,
             waiting_for |-> branch \o user \o worker]

\* a queue status that never names the user gate
get_queue_status_for_job_NoUserSlot(S, job_id) ==
    IF Missing(S.jobs, job_id) THEN None
    ELSE LET job == S.jobs[job_id]
             queued == job.state = PENDING
             same_branch_running ==
                 \E j \in DOMAIN S.jobs :
                     /\ BranchKey(S.jobs[j]) = BranchKey(job)
                     /\ j # job_id
                     /\ S.jobs[j].state = RUNNING
             branch == IF queued /\ same_branch_running THEN <<"BRANCH">> ELSE <<>>
             worker == IF queued /\ S.active_workers >= MAX_WORKERS THEN <<"WORKER">> ELSE <<>>
         IN [status |-> snapshot_queue(S), queued |-> queued, waiting_for |-> branch \o worker]

get_queue_status_for_job(S, job_id) ==
    IF Missing(S.jobs, job_id) THEN None
    ELSE LET job == S.jobs[job_id]
             queued == job.state = PENDING
             same_branch_running ==
                 \E j \in DOMAIN S.jobs :
                     /\ BranchKey(S.jobs[j]) = BranchKey(job)
                     /\ j # job_id
                     /\ S.jobs[j].state = RUNNING
             branch == IF queued /\ same_branch_running THEN <<"BRANCH">> ELSE <<>>
             user == IF /\ queued
                        /\ job.user_id \notin S.active_user_ids
                        /\ Cardinality(S.active_user_ids) >= MAX_ACTIVE_USERS
                     THEN <<"USER_SLOT">> ELSE <<>>
             worker == IF queued /\ S.active_workers >= MAX_WORKERS THEN <<"WORKER">> ELSE <<>>
         IN [status |-> snapshot_queue(S), queued |-> queued,
             waiting_for |-> branch \o user \o worker]

\* ------------------------------------------------------------------ file_store.py
\* the files the users uploaded before their workload: file i, by the sender of request i
Files == DOMAIN requests
file_owned_by(file_id, user_id) == file_id \in Files /\ requests[file_id].user_id = user_id
get_info(file_id) ==
    IF file_id \notin Files THEN None
    ELSE [file_id |-> file_id, user_id |-> requests[file_id].user_id]

\* workflow_store.exists and owned_by; get_workflow_info is None exactly for a
\* workflow that does not exist
workflow_exists(workflow_id) == workflow_id \in Workflows
workflow_owned_by(workflow_id, user_id) ==
    workflow_id \in Workflows /\ OwnerOf(workflow_id) = user_id

\* ------------------------------------------------------------------ api_jobs.py
\* each handler gives the status code of its response and the state it leaves
\* a lookup that does not compare the owner
NotFound_MissingOnly(S, job_id, x_user_id) == Missing(S.jobs, job_id)

NotFound(S, job_id, x_user_id) ==
    Missing(S.jobs, job_id) \/ S.jobs[job_id].user_id # x_user_id

\* the responses: HTTPException(status_code, detail), or 200 with a body; body
\* is the set of the bodies sent, empty for an exception
Refused(code, detail) == [code |-> code, detail |-> detail, body |-> {}]
Answer(body) == [code |-> 200, detail |-> None, body |-> {body}]

\* a start handler that enqueues a job in any state
start_job_AnyState(S, job_id, x_user_id) ==
    IF NotFound(S, job_id, x_user_id) THEN [code |-> 404, state |-> S]
    ELSE [code |-> 200, state |-> enqueue_job(S, job_id)]

start_job(S, job_id, x_user_id) ==
    IF NotFound(S, job_id, x_user_id) THEN [code |-> 404, state |-> S]
    ELSE IF S.jobs[job_id].state # PENDING THEN [code |-> 409, state |-> S]
    ELSE [code |-> 200, state |-> enqueue_job(S, job_id)]

\* a cancel handler that leaves the look at the state to the store
cancel_job_NoCheck(S, job_id, x_user_id) ==
    IF NotFound(S, job_id, x_user_id) THEN [code |-> 404, state |-> S]
    ELSE [code |-> 200, state |-> Write(S, cancel_job_if_pending(S.jobs, job_id))]

cancel_job(S, job_id, x_user_id) ==
    IF NotFound(S, job_id, x_user_id) THEN [code |-> 404, state |-> S]
    ELSE IF S.jobs[job_id].state # PENDING THEN [code |-> 409, state |-> S]
    ELSE [code |-> 200, state |-> Write(S, cancel_job_if_pending(S.jobs, job_id))]

\* a retry handler without its own look at the state
retry_job_NoCheck(S, job_id, x_user_id) ==
    IF NotFound(S, job_id, x_user_id) THEN [code |-> 404, state |-> S]
    ELSE [code |-> 200, state |-> Write(S, reset_for_retry(S.jobs, job_id).jobs)]

retry_job(S, job_id, x_user_id) ==
    IF NotFound(S, job_id, x_user_id) THEN [code |-> 404, state |-> S]
    ELSE IF S.jobs[job_id].state = RUNNING THEN [code |-> 409, state |-> S]
    ELSE [code |-> 200, state |-> Write(S, reset_for_retry(S.jobs, job_id).jobs)]

\* the endpoints that read: each gives its response
list_jobs_endpoint(S, x_user_id) ==
    Answer({S.jobs[j] : j \in {k \in DOMAIN S.jobs : S.jobs[k].user_id = x_user_id}})

get_job_endpoint(S, job_id, x_user_id) ==
    IF NotFound(S, job_id, x_user_id) THEN Refused(404, "Job not found")
    ELSE Answer(S.jobs[job_id])

download_result(S, job_id, x_user_id) ==
    IF NotFound(S, job_id, x_user_id) THEN Refused(404, "Job not found")
    ELSE IF S.jobs[job_id].state # SUCCEEDED \/ S.jobs[job_id].result_path = None
         THEN Refused(404, "Result not ready")
         ELSE Answer(S.jobs[job_id].result_path)

\* the response that opens the event stream of a job
job_events(S, job_id, user_id) ==
    IF NotFound(S, job_id, user_id) THEN Refused(404, "Job not found")
    ELSE Answer("text/event-stream")

\* error.json holds no "preview"; the manifest does
preview_image(S, job_id, x_user_id) ==
    IF NotFound(S, job_id, x_user_id) THEN Refused(404, "Job not found")
    ELSE IF S.jobs[job_id].result_path = None THEN Refused(404, "Result not ready")
    ELSE IF S.jobs[job_id].result_path = "manifest.json" THEN Answer("preview.png")
    ELSE Refused(404, "Preview not available")

download_artifacts(S, job_id, x_user_id) ==
    IF NotFound(S, job_id, x_user_id) THEN Refused(404, "Job not found")
    ELSE IF S.jobs[job_id].result_path = None THEN Refused(404, "Result not ready")
    ELSE Answer("artifacts.zip")

get_queue_status(S, job_id, x_user_id) ==
    IF NotFound(S, job_id, x_user_id) THEN Refused(404, "Job not found")
    ELSE Answer(get_queue_status_for_job(S, job_id))

\* POST /jobs/: the response and the store it leaves
create_job_endpoint(S, payload, x_user_id) ==
    IF ~workflow_owned_by(payload.workflow_id, x_user_id)
    THEN [response |-> Refused(404, "Workflow not found"), state |-> S]
    ELSE IF ~file_owned_by(payload.file_id, x_user_id)
    THEN [response |-> Refused(404, "File not found"), state |-> S]
    ELSE LET J == create_job(S.jobs, payload.workflow_id, payload.branch, x_user_id,
                             payload.file_id, payload.job_type)
         IN [response |-> Answer(J[Len(J)]), state |-> [S EXCEPT !.jobs = J]]

\* ------------------------------------------------------------------ api_workflows.py, api_files.py
get_workflow_endpoint(S, workflow_id, x_user_id) ==
    IF ~workflow_owned_by(workflow_id, x_user_id) THEN Refused(404, "Workflow not found")
    ELSE IF ~workflow_exists(workflow_id) THEN Refused(404, "Workflow not found")
    ELSE Answer(get_workflow_info(S.jobs, workflow_id))

get_workflow_jobs(S, workflow_id, x_user_id) ==
    IF ~workflow_owned_by(workflow_id, x_user_id) THEN Refused(404, "Workflow not found")
    ELSE Answer({S.jobs[j] : j \in {k \in DOMAIN S.jobs :
                     S.jobs[k].user_id = x_user_id /\ S.jobs[k].workflow_id = workflow_id}})

\* the response that opens the event stream of a workflow
workflow_events(S, workflow_id, user_id) ==
    IF ~workflow_owned_by(workflow_id, user_id) THEN Refused(404, "Workflow not found")
    ELSE Answer("text/event-stream")

get_file_info(file_id, x_user_id) ==
    IF file_id \notin Files THEN Refused(404, "File not found")
    ELSE IF get_info(file_id).user_id # x_user_id THEN Refused(404, "File not found")
    ELSE Answer(get_info(file_id))

\* ------------------------------------------------------------------ event streams
\* the payload of a job stream (api_jobs.py line 103)
JobPayload(J, job_id) ==
    [state |-> J[job_id].state, progress |-> J[job_id].progress,
     tiles_processed |-> J[job_id].tiles_processed, tiles_total |-> J[job_id].tiles_total]

\* the payload of a workflow stream (api_workflows.py lines 59-62)
WorkflowPayload(J, workflow_id, user_id) ==
    LET wf == get_workflow_info(J, workflow_id)
        workflow_jobs == {j \in DOMAIN J :
                             J[j].user_id = user_id /\ J[j].workflow_id = workflow_id}
    IN [state |-> wf.state, percent_complete |-> wf.percent_complete,
        jobs |-> [j \in workflow_jobs |->
                     [job_id |-> j, state |-> J[j].state, progress |-> J[j].progress,
                      tiles_processed |-> J[j].tiles_processed,
                      tiles_total |-> J[j].tiles_total]]]

\* the payload the stream st builds from the store J in one pass of its loop
Payload(st, J) ==
    IF st.kind = "job" THEN JobPayload(J, st.id) ELSE WorkflowPayload(J, st.id, st.user_id)

\* the states after which a stream leaves its loop
EndStates(kind) == IF kind = "job" THEN {SUCCEEDED, FAILED, CANCELED} ELSE {SUCCEEDED, FAILED}

\* yield: a payload goes out, the first one of the stream or a later one
Yield(st) == IF st.pc = "open" THEN 1 ELSE 2

\* a pass of the loop that yields whatever it has built
event_stream_YieldAlways(st, J) ==
    [st EXCEPT !.sent = Yield(st),
               !.last_payload = {Payload(st, J)},
               !.pc = IF Payload(st, J).state \in EndStates(st.kind) THEN "ended" ELSE "sleep"]

\* a loop that goes on polling after a terminal payload
event_stream_NoBreak(st, J) ==
    [st EXCEPT !.sent = IF Payload(st, J) \in st.last_payload THEN 0
                        ELSE Yield(st),
               !.last_payload = {Payload(st, J)},
               !.pc = "sleep"]

\* One pass of event_stream's loop: build the payload; if it differs from
\* last_payload, yield it and keep it; then break on a terminal state, or
\* sleep.  (The break for a missing or foreign entity cannot be taken: nothing
\* is deleted and no owner changes.)
event_stream(st, J) ==
    [st EXCEPT !.sent = IF Payload(st, J) \in st.last_payload THEN 0
                        ELSE Yield(st),
               !.last_payload = {Payload(st, J)},
               !.pc = IF Payload(st, J).state \in EndStates(st.kind) THEN "ended" ELSE "sleep"]

\* ------------------------------------------------------------------ actions
\* POST /jobs/ by the owner of the workflow and of the file
CreateJob ==
    /\ Len(jobs) < Len(requests)
    /\ LET i == Len(jobs) + 1
           r == requests[i]
           payload == [workflow_id |-> WorkflowOfUser(r.user_id), file_id |-> i,
                       job_type |-> r.job_type, branch |-> r.branch]
       IN jobs' = create_job_endpoint(State, payload, r.user_id).state.jobs
    /\ changes' = <<>>
    /\ deduped' = 0
    /\ UNCHANGED <<requests, scheduled, ready, pc, acquired_user_slot, processed, branch_locks,
                   workers, permit, active_user_ids, active_user_counts, active_workers,
                   logging, retries_left, enqueue_order, enqueued, held, tiling>>
    /\ stream' = Quiet(stream)

StartJob(j, u) ==
    /\ Commit(start_job(State, j, u).state)
    /\ UNCHANGED retries_left

CancelJob(j, u) ==
    /\ Commit(cancel_job(State, j, u).state)
    /\ UNCHANGED retries_left

RetryJob(j, u) ==
    /\ Commit(retry_job(State, j, u).state)
    /\ UNCHANGED retries_left

\* the loop starts the oldest created task
WorkerStart(opened) ==
    /\ ready # <<>>
    /\ Commit(WorkerBegin([State EXCEPT !.ready = Tail(@)], Head(ready), opened))
    /\ UNCHANGED retries_left

\* a task woken by the release of its branch lock goes on
BranchGranted(t, opened) ==
    /\ pc[t] = "branch"
    /\ branch_locks[BranchKey(jobs[t[1]])].owner = t
    /\ Commit(AfterBranchLock(State, t, opened))
    /\ UNCHANGED retries_left

\* a task waiting in _user_gate.wait() finds its predicate true
UserAdmitted(t, opened) ==
    /\ pc[t] = "user"
    /\ UserGateOpen(State, jobs[t[1]].user_id)
    /\ Commit(UserSlotTaken(State, t, opened))
    /\ UNCHANGED retries_left

\* a task woken with a permit goes on
PermitGranted(t, opened) ==
    /\ pc[t] = "permit"
    /\ t \in permit
    /\ Commit(AfterPermit(State, t, opened))
    /\ UNCHANGED retries_left

\* a tile's to_thread returns: processed += 1, set_job_progress, next tile or preview
TileDone(t) ==
    /\ pc[t] = "tile"
    /\ LET total == TilesTotal(jobs[t[1]].file_id)
           n == processed[t] + 1
           Progress(a) == Write(a, set_job_progress(a.jobs, t[1], Frac(n, total), n, total))
           Loop(a) == IF n < total THEN a ELSE [a EXCEPT !.pc[t] = "preview"]
       IN Commit(Strict(Loop, Strict(Progress, [State EXCEPT !.processed[t] = n])))
    /\ UNCHANGED retries_left

\* a tile's to_thread raises
TileFail(t) ==
    /\ pc[t] = "tile"
    /\ Commit(RunJobEnd(State, t, FALSE))
    /\ UNCHANGED retries_left

\* the preview's to_thread returns; the manifest is written
PreviewDone(t) ==
    /\ pc[t] = "preview"
    /\ Commit(RunJobEnd(State, t, TRUE))
    /\ UNCHANGED retries_left

\* the preview's to_thread raises
PreviewFail(t) ==
    /\ pc[t] = "preview"
    /\ Commit(RunJobEnd(State, t, FALSE))
    /\ UNCHANGED retries_left

\* GET /jobs/{job_id}/events?user_id=u, accepted: the response is a stream
SubscribeJob(j, u) ==
    /\ stream.pc = "none"
    /\ job_events(State, j, u).code = 200
    /\ stream' = [kind |-> "job", id |-> j, user_id |-> u, pc |-> "open", last_payload |-> {},
                  sent |-> 0]
    /\ changes' = <<>>
    /\ deduped' = 0
    /\ UNCHANGED <<requests, jobs, scheduled, ready, pc, acquired_user_slot, processed,
                   branch_locks, workers, permit, active_user_ids, active_user_counts,
                   active_workers, logging, retries_left, enqueue_order, enqueued, held, tiling>>

\* GET /workflows/{workflow_id}/events?user_id=u, accepted
SubscribeWorkflow(w, u) ==
    /\ stream.pc = "none"
    /\ workflow_events(State, w, u).code = 200
    /\ stream' = [kind |-> "workflow", id |-> w, user_id |-> u, pc |-> "open",
                  last_payload |-> {}, sent |-> 0]
    /\ changes' = <<>>
    /\ deduped' = 0
    /\ UNCHANGED <<requests, jobs, scheduled, ready, pc, acquired_user_slot, processed,
                   branch_locks, workers, permit, active_user_ids, active_user_counts,
                   active_workers, logging, retries_left, enqueue_order, enqueued, held, tiling>>

\* the stream's loop makes a pass: its first, or one after its sleep of 0.25 s
StreamPoll ==
    /\ stream.pc \in {"open", "sleep"}
    /\ stream' = event_stream(stream, jobs)
    /\ changes' = <<>>
    /\ deduped' = 0
    /\ UNCHANGED <<requests, jobs, scheduled, ready, pc, acquired_user_slot, processed,
                   branch_locks, workers, permit, active_user_ids, active_user_counts,
                   active_workers, logging, retries_left, enqueue_order, enqueued, held, tiling>>

\* JobStore.get_job: the value of self._jobs.get(job_id), which is the JobInfo
\* object the store keeps (no copy is made); an object is named by its key, and
\* None is the empty set
get_job(J, job_id) == IF job_id \in DOMAIN J THEN {job_id} ELSE {}
\* the fields read through a reference to a JobInfo object
Fields(J, ref) == J[ref]

\* A coroutine calls job_store.get_job(j) and keeps the value in a local
\* variable (as _worker and run_job do with job)
GetJob(j) ==
    /\ held = {}
    /\ get_job(jobs, j) # {}
    /\ held' = {[ref |-> ref, seen |-> Fields(jobs, ref)] : ref \in get_job(jobs, j)}
    /\ changes' = <<>>
    /\ deduped' = 0
    /\ UNCHANGED <<requests, jobs, scheduled, ready, pc, acquired_user_slot, processed,
                   branch_locks, workers, permit, active_user_ids, active_user_counts,
                   active_workers, logging, retries_left, enqueue_order, enqueued, tiling>>
    /\ stream' = Quiet(stream)

Next ==
    \/ CreateJob
    \/ \E j \in JobIds, u \in Users : StartJob(j, u)
    \/ \E j \in JobIds, u \in Users : CancelJob(j, u)
    \/ \E j \in JobIds, u \in Users : RetryJob(j, u)
    \/ \E opened \in BOOLEAN : WorkerStart(opened)
    \/ \E t \in TaskIds, opened \in BOOLEAN : BranchGranted(t, opened)
    \/ \E t \in TaskIds, opened \in BOOLEAN : UserAdmitted(t, opened)
    \/ \E t \in TaskIds, opened \in BOOLEAN : PermitGranted(t, opened)
    \/ \E t \in TaskIds : TileDone(t)
    \/ \E t \in TaskIds : TileFail(t)
    \/ \E t \in TaskIds : PreviewDone(t)
    \/ \E t \in TaskIds : PreviewFail(t)

Spec == Init /\ [][Next]_vars

\* the same program, with the log of each step kept
InitLog == InitProgram /\ logging = TRUE /\ enqueued = NoCalls
SpecLog == InitLog /\ [][Next]_vars

\* The program under a finite workload and a fair event loop: the clients send
\* at most MaxRetries retry requests, every task that can run is run, and every
\* to_thread call of the executor returns or raises.
FairRetryJob(j, u) ==
    /\ retries_left > 0
    /\ Commit(retry_job(State, j, u).state)
    /\ retries_left' = retries_left - 1

WorkerStep ==
    \/ \E opened \in BOOLEAN : WorkerStart(opened)
    \/ \E t \in TaskIds, opened \in BOOLEAN : BranchGranted(t, opened)
    \/ \E t \in TaskIds, opened \in BOOLEAN : UserAdmitted(t, opened)
    \/ \E t \in TaskIds, opened \in BOOLEAN : PermitGranted(t, opened)
    \/ \E t \in TaskIds : TileDone(t)
    \/ \E t \in TaskIds : TileFail(t)
    \/ \E t \in TaskIds : PreviewDone(t)
    \/ \E t \in TaskIds : PreviewFail(t)

NextFair ==
    \/ CreateJob
    \/ \E j \in JobIds, u \in Users : StartJob(j, u)
    \/ \E j \in JobIds, u \in Users : CancelJob(j, u)
    \/ \E j \in JobIds, u \in Users : FairRetryJob(j, u)
    \/ WorkerStep

FairSpec == Init /\ [][NextFair]_vars /\ WF_vars(WorkerStep)

\* The program under an unbounded workload and a strongly fair event loop: the
\* clients send any number of requests; a task that can go on again and again
\* does go on, and every to_thread call of its executor returns or raises.
TaskStep(t) ==
    \/ \E opened \in BOOLEAN : ready # <<>> /\ Head(ready) = t /\ WorkerStart(opened)
    \/ \E opened \in BOOLEAN : BranchGranted(t, opened)
    \/ \E opened \in BOOLEAN : UserAdmitted(t, opened)
    \/ \E opened \in BOOLEAN : PermitGranted(t, opened)
    \/ TileDone(t)
    \/ TileFail(t)
    \/ PreviewDone(t)
    \/ PreviewFail(t)

SpecStarve == Init /\ [][Next]_vars /\ \A t \in TaskIds : SF_vars(TaskStep(t))

\* The program with a failing disk: a tile's or the preview's to_thread raises,
\* and the write of error.json raises as well.
ErrorUnwritten(t) ==
    /\ pc[t] \in {"tile", "preview"}
    /\ Commit(RunJobEndUnwritten(State, t))
    /\ UNCHANGED retries_left

NextFault ==
    \/ Next
    \/ \E t \in TaskIds : ErrorUnwritten(t)

SpecFault == Init /\ [][NextFault]_vars

\* The program with a disk on which the job directory cannot be made: the step
\* of task t that enters run_job is taken while os.makedirs raises (the task
\* starts, or goes on after the branch lock, the user gate or the semaphore).
JobDirFails(t) ==
    /\ \E R \in {[State EXCEPT !.job_dir_ok = FALSE]} :
           \/ ready # <<>> /\ Head(ready) = t
                  /\ Commit(WorkerBegin([R EXCEPT !.ready = Tail(@)], t, TRUE))
           \/ pc[t] = "branch" /\ branch_locks[BranchKey(jobs[t[1]])].owner = t
                  /\ Commit(AfterBranchLock(R, t, TRUE))
           \/ pc[t] = "user" /\ UserGateOpen(State, jobs[t[1]].user_id)
                  /\ Commit(UserSlotTaken(R, t, TRUE))
           \/ pc[t] = "permit" /\ t \in permit
                  /\ Commit(AfterPermit(R, t, TRUE))
    /\ jobs'[t[1]].state = RUNNING
    /\ pc'[t] = "none"
    /\ UNCHANGED retries_left

NextDisk ==
    \/ NextFault
    \/ \E t \in TaskIds : JobDirFails(t)

\* every task that can go on does go on, and every to_thread call returns or raises
SpecDisk == Init /\ [][NextDisk]_vars /\ \A t \in TaskIds : WF_vars(TaskStep(t))

\* the program under the workloads of the branch queue
InitFifo == requests \in FifoWorkloads /\ InitStores /\ logging = FALSE /\ enqueued = NoCalls
SpecFifo == InitFifo /\ [][Next]_vars

\* the program under the workloads of the worker cap
InitWorkers == requests \in WorkerWorkloads /\ InitStores /\ logging = FALSE /\ enqueued = NoCalls
SpecWorkers == InitWorkers /\ [][Next]_vars

\* The program with an observer: one event stream of a job or of a workflow.
\* Under FairStreams the stream's loop keeps making its passes.
NextStreams ==
    \/ Next
    \/ \E j \in JobIds, u \in Users : SubscribeJob(j, u)
    \/ \E w \in Workflows, u \in Users : SubscribeWorkflow(w, u)
    \/ StreamPoll

InitStreams == requests \in StreamWorkloads /\ InitStores /\ logging = FALSE /\ enqueued = NoCalls
SpecStreams == InitStreams /\ [][NextStreams]_vars
\* the event loop runs the generator again after each sleep of 0.25 s
FairStreams == InitStreams /\ [][NextStreams]_vars /\ WF_vars(StreamPoll)

\* the program beside a coroutine that keeps a record it got from the store
NextStore == Next \/ \E j \in JobIds : GetJob(j)
SpecStore == InitStreams /\ [][NextStore]_vars

\* iter_tiles alone, called once under every setting 0 <= TILE_OVERLAP < TILE_SIZE
\* and for every image up to the bounds: total = sum(1 for _ in iter_tiles(..))
\* (line 56), then the tiles of the loop of line 59
Enumerate ==
    /\ ~tiling.done
    /\ tiling' = [tiling EXCEPT
                      !.tiles = RowsFrom(tiling.cfg, 0, tiling.img_w, tiling.img_h),
                      !.total = Len(RowsFrom(tiling.cfg, 0, tiling.img_w, tiling.img_h)),
                      !.done = TRUE]
    /\ UNCHANGED <<requests, jobs, scheduled, ready, pc, acquired_user_slot, processed,
                   branch_locks, workers, permit, active_user_ids, active_user_counts,
                   active_workers, changes, deduped, logging, retries_left, enqueue_order,
                   enqueued, stream, held>>

InitEnum ==
    /\ requests \in StreamWorkloads
    /\ jobs = <<>> /\ scheduled = {} /\ ready = <<>>
    /\ pc = [t \in TaskIds |-> "none"]
    /\ acquired_user_slot = {}
    /\ processed = [t \in TaskIds |-> 0]
    /\ branch_locks = <<>>
    /\ workers = [value |-> MAX_WORKERS, waiters |-> <<>>]
    /\ permit = {} /\ active_user_ids = {} /\ active_user_counts = <<>>
    /\ active_workers = 0
    /\ changes = <<>> /\ deduped = 0 /\ logging = FALSE
    /\ retries_left = MaxRetries
    /\ enqueue_order = [k \in {} |-> <<>>] /\ enqueued = NoCalls
    /\ stream = NoStream /\ held = {}
    /\ \E size \in 1 .. MaxTileSize, overlap \in 0 .. MaxTileSize - 1,
          w \in 1 .. MaxSide, h \in 1 .. MaxSide :
           /\ overlap < size
           /\ tiling = [cfg |-> <<size, overlap>>, img_w |-> w, img_h |-> h,
                        tiles |-> <<>>, total |-> 0, done |-> FALSE]
SpecEnum == InitEnum /\ [][Enumerate]_vars

\* the same program, with the history of the calls of enqueue_job kept
InitCalls == InitProgram /\ logging = FALSE /\ enqueued = [kept |-> TRUE, jobs |-> {}]
SpecCalls == InitCalls /\ [][Next]_vars

\* the program under the workloads with the 2048 x 1024 image
InitTiles == requests \in TileWorkloads /\ InitStores /\ logging = FALSE /\ enqueued = NoCalls
SpecTiles == InitTiles /\ [][Next]_vars

\* ------------------------------------------------------------------ claims
Terminal == {SUCCEEDED, FAILED, CANCELED}
RunningJobs == {j \in DOMAIN jobs : jobs[j].state = RUNNING}
TasksOf(j) == {t \in TaskIds : t[1] = j}
SameBranch(a, b) == a # b /\ BranchKey(jobs[a]) = BranchKey(jobs[b])

C5_OneLiveTask ==
    \A j \in JobIds :
        /\ Cardinality(LiveTasks(State, j)) <= 1
        /\ Cardinality({t \in TasksOf(j) : pc[t] \in {"tile", "preview"}}) <= 1

\* enqueue_job was called for a job whose earlier task waits at a gate, and returned early
C5_Witness ==
    /\ deduped # 0
    /\ \E t \in TasksOf(deduped) : pc[t] \in {"branch", "user", "permit"}

\* the edges of the job state machine
Edges ==
    {<<PENDING, RUNNING>>, <<RUNNING, SUCCEEDED>>, <<RUNNING, FAILED>>, <<PENDING, CANCELED>>,
     <<SUCCEEDED, PENDING>>, <<FAILED, PENDING>>, <<CANCELED, PENDING>>}

\* the changes of job j noted in a step's log link its state before the step
\* to its state after the step
Linked(j, from, to, log) ==
    LET s == SelectSeq(log, LAMBDA c : c[1] = j)
    IN IF s = <<>> THEN from = to
       ELSE /\ s[1][2] = from
            /\ s[Len(s)][3] = to
            /\ \A i \in 1 .. Len(s) - 1 : s[i][3] = s[i + 1][2]

\* C6: every change of a job's state, in every step of every interleaving,
\* follows an edge of the state machine (PENDING->RUNNING, RUNNING->SUCCEEDED,
\* RUNNING->FAILED, PENDING->CANCELED, terminal->PENDING); the log of a step
\* holds all the changes the step made.
C6_StateEdges ==
    /\ [](\A i \in DOMAIN changes : <<changes[i][2], changes[i][3]>> \in Edges)
    /\ [][\A j \in DOMAIN jobs : Linked(j, jobs[j].state, jobs'[j].state, changes')]_vars

\* a job was canceled while its worker task waits at a gate: the task's next
\* checkpoint meets a CANCELED job
C6_Witness ==
    \E j \in DOMAIN jobs :
        jobs[j].state = CANCELED /\ \E t \in TasksOf(j) : pc[t] \in {"branch", "user", "permit"}

\* the state of job j, None while it is not created
StateOf(j) == IF j \in DOMAIN jobs THEN jobs[j].state ELSE None

C8_RetrySafety ==
    [][\A j \in DOMAIN jobs :
          (jobs[j].state \in Terminal /\ jobs'[j].state # jobs[j].state)
              => /\ jobs'[j].state = PENDING
                 /\ jobs'[j].progress = Zero
                 /\ jobs'[j].result_path = None
                 /\ jobs'[j].tiles_total = jobs[j].tiles_total
                 /\ \A k \in DOMAIN jobs \ {j} : jobs'[k] = jobs[k]]_vars

\* a job that ran (its tiles_total is known) was reset: PENDING, progress 0,
\* no result_path, while another job is RUNNING
C8_Witness ==
    \E j \in DOMAIN jobs :
        /\ jobs[j].state = PENDING
        /\ jobs[j].tiles_total > 0
        /\ jobs[j].progress = Zero
        /\ jobs[j].result_path = None
        /\ RunningJobs # {}

\* C9 as stated: reset_for_retry of a RUNNING job ends with InvalidState, the
\* retry endpoint answers 409, and the record is unchanged.
C9_Original ==
    \A j \in RunningJobs :
        /\ reset_for_retry(jobs, j).raised = "InvalidState"
        /\ reset_for_retry(jobs, j).jobs = jobs
        /\ retry_job(State, j, jobs[j].user_id).code = 409

\* C9, as the code has it: reset_for_retry of a RUNNING job raises nothing and
\* returns the unchanged record; the retry endpoint, by its own look at the
\* state, answers 409 for a RUNNING job and changes nothing, so no retry
\* request reports success for a RUNNING job.
C9_RunningRetry ==
    \A j \in RunningJobs :
        /\ reset_for_retry(jobs, j).raised = None
        /\ reset_for_retry(jobs, j).ret = "job"
        /\ reset_for_retry(jobs, j).jobs = jobs
        /\ retry_job(State, j, jobs[j].user_id).code = 409
        /\ retry_job(State, j, jobs[j].user_id).state = State

\* a job RUNNING with some of its tiles done
C9_Witness ==
    \E j \in RunningJobs : jobs[j].tiles_processed >= 1 /\ ~IsOne(jobs[j].progress)

\* C10: between two consecutive states of a job's record that are both not
\* terminal, neither tiles_processed nor progress decreases.
C10_MonotoneProgress ==
    [][\A j \in DOMAIN jobs :
          (jobs[j].state \notin Terminal /\ jobs'[j].state \notin Terminal)
              => /\ jobs'[j].tiles_processed >= jobs[j].tiles_processed
                 /\ FracLeq(jobs[j].progress, jobs'[j].progress)]_vars

\* the number of live slots counted for user u in _active_user_counts
CountOf(counts, u) == IF u \in DOMAIN counts THEN counts[u] ELSE 0

\* task t is at a checkpoint of _worker: its next step re-reads the job after
\* the branch lock (line 66), the user slot (line 73) or the permit (line 78)
AtCheckpoint(t) ==
    \/ pc[t] = "branch" /\ branch_locks[BranchKey(jobs[t[1]])].owner = t
    \/ pc[t] = "user" /\ UserGateOpen(State, jobs[t[1]].user_id)
    \/ pc[t] = "permit" /\ t \in permit

\* C11: a worker task that re-reads its job at a checkpoint and finds it
\* CANCELED ends without changing any job record and without entering run_job,
\* gives back exactly the gates it held (branch lock; user slot if it had one;
\* permit if it had one) and removes its job_id from _scheduled.
C11_Checkpoints ==
    [][\A t \in TaskIds :
          (AtCheckpoint(t) /\ pc'[t] # pc[t] /\ jobs[t[1]].state = CANCELED)
              => LET u == jobs[t[1]].user_id
                     key == BranchKey(jobs[t[1]])
                 IN /\ jobs' = jobs
                    /\ active_workers' = active_workers
                    /\ pc'[t] = "none"
                    /\ t[1] \notin scheduled'
                    /\ branch_locks'[key] = LockRelease(branch_locks[key])
                    /\ t \notin acquired_user_slot'
                    /\ CountOf(active_user_counts', u)
                           = CountOf(active_user_counts, u) - (IF pc[t] = "permit" THEN 1 ELSE 0)
                    /\ (u \in active_user_ids') = (CountOf(active_user_counts', u) > 0)
                    /\ t \notin permit'
                    /\ workers'.value + Cardinality(permit') = workers.value + Cardinality(permit)
                    /\ \A o \in TaskIds \ {t} : pc'[o] = pc[o]]_vars

\* a task was handed a permit while its job is CANCELED: its next step is the
\* third checkpoint, holding branch lock, user slot and permit
C11_Witness ==
    \E t \in TaskIds :
        /\ pc[t] = "permit" /\ t \in permit /\ t \in acquired_user_slot
        /\ jobs[t[1]].state = CANCELED

\* C12: cancel_job_if_pending sets CANCELED exactly for a PENDING job and
\* changes no other field and no other job; for a job in any other state it
\* changes nothing; applied twice it gives what it gives applied once.
C12_CancelIfPending ==
    \A j \in DOMAIN jobs :
        LET R == cancel_job_if_pending(jobs, j)
        IN /\ jobs[j].state = PENDING => R = [jobs EXCEPT ![j].state = CANCELED]
           /\ jobs[j].state # PENDING => R = jobs
           /\ (R[j].state = CANCELED /\ jobs[j].state # CANCELED) <=> jobs[j].state = PENDING
           /\ cancel_job_if_pending(R, j) = R
           /\ R[j].progress = jobs[j].progress
           /\ R[j].tiles_processed = jobs[j].tiles_processed
           /\ R[j].tiles_total = jobs[j].tiles_total
           /\ R[j].result_path = jobs[j].result_path

\* a job that ran before was canceled: CANCELED with its tile counts kept,
\* next to a job in each of the states RUNNING and SUCCEEDED or FAILED
C12_Witness ==
    /\ \E j \in DOMAIN jobs : jobs[j].state = CANCELED /\ jobs[j].tiles_total > 0
    /\ \E j \in DOMAIN jobs : jobs[j].state = RUNNING
    /\ \E j \in DOMAIN jobs : jobs[j].state \in {SUCCEEDED, FAILED} /\ jobs[j].result_path # None

\* C13: the cancel endpoint answers 200 only when the request takes the job
\* from PENDING to CANCELED, and answers 409, changing nothing, for an owned
\* job that is not PENDING when the cancellation is applied.
C13_CancelEndpoint ==
    \A j \in DOMAIN jobs :
        LET r == cancel_job(State, j, jobs[j].user_id)
        IN /\ r.code \in {200, 409}
           /\ r.code = 200 => /\ jobs[j].state = PENDING
                               /\ r.state.jobs = [jobs EXCEPT ![j].state = CANCELED]
           /\ jobs[j].state # PENDING => r.code = 409 /\ r.state = State

\* a cancel request for a RUNNING job whose owner has another job PENDING and
\* scheduled, its task waiting at a gate
C13_Witness ==
    \E j, k \in DOMAIN jobs :
        /\ jobs[j].state = RUNNING
        /\ cancel_job(State, j, jobs[j].user_id).code = 409
        /\ jobs[k].state = PENDING /\ k \in scheduled
        /\ cancel_job(State, k, jobs[k].user_id).code = 200

\* C14 (I1): every PENDING job has progress 0 and no result_path.
C14_I1 ==
    \A j \in DOMAIN jobs :
        jobs[j].state = PENDING => jobs[j].progress = Zero /\ jobs[j].result_path = None

\* a job that ran to the end (tiles_processed = tiles_total > 0) is PENDING
\* again after a retry
C14_Witness ==
    \E j \in DOMAIN jobs :
        /\ jobs[j].state = PENDING
        /\ jobs[j].tiles_total > 0
        /\ jobs[j].tiles_processed = jobs[j].tiles_total

C16_I3 ==
    \A j \in DOMAIN jobs : jobs[j].state = FAILED => jobs[j].result_path = "error.json"

\* the states of the member jobs of workflow w
MemberStates(w) == {jobs[j].state : j \in {k \in DOMAIN jobs : jobs[k].workflow_id = w}}

\* C17: get_workflow_info gives FAILED if a member job is FAILED; else
\* SUCCEEDED if there are member jobs and all are SUCCEEDED; else RUNNING if
\* one is RUNNING; else PENDING; and percent_complete 0 for no member job.
C17_Aggregation ==
    \A w \in Workflows :
        LET info == get_workflow_info(jobs, w)
            M == MemberStates(w)
        IN /\ FAILED \in M => info.state = FAILED
           /\ (FAILED \notin M /\ M = {SUCCEEDED}) => info.state = SUCCEEDED
           /\ (FAILED \notin M /\ M # {SUCCEEDED} /\ RUNNING \in M) => info.state = RUNNING
           /\ (FAILED \notin M /\ M # {SUCCEEDED} /\ RUNNING \notin M) => info.state = PENDING
           /\ M = {} => info.state = PENDING /\ info.percent_complete = Zero
           /\ M = {CANCELED} => info.state = PENDING

\* one workflow has no job yet, the other has two jobs, both CANCELED
C17_Witness ==
    \E w, v \in Workflows :
        /\ MemberStates(w) = {}
        /\ MemberStates(v) = {CANCELED}
        /\ Cardinality({k \in DOMAIN jobs : jobs[k].workflow_id = v}) = 2

\* the responses to u of the endpoints that read job j, and of those that act on it
JobReads(j, u) ==
    <<get_job_endpoint(State, j, u), download_result(State, j, u), job_events(State, j, u),
      preview_image(State, j, u), download_artifacts(State, j, u), get_queue_status(State, j, u)>>
JobActs(j, u) == <<start_job(State, j, u), cancel_job(State, j, u), retry_job(State, j, u)>>
WorkflowReads(w, u) ==
    <<get_workflow_endpoint(State, w, u), get_workflow_jobs(State, w, u),
      workflow_events(State, w, u)>>
PayloadOf(w, f) == [workflow_id |-> w, file_id |-> f, job_type |-> "TISSUE_MASK", branch |-> None]

\* C18 (ownership opacity): to a user who does not own it, every endpoint of a
\* job, a workflow or a file answers as it does for an identifier that does not
\* exist: the same 404, no body, no change of state; no endpoint answers 403,
\* and the listings hold the caller's own jobs only.
C18_Opacity ==
    \A u \in Users :
        LET ghost == Len(jobs) + 1
            mine == CHOOSE f \in Files : requests[f].user_id = u
        IN /\ \A j \in DOMAIN jobs : jobs[j].user_id # u =>
                  /\ JobReads(j, u) = JobReads(ghost, u)
                  /\ \A i \in 1 .. 6 : JobReads(j, u)[i] = Refused(404, "Job not found")
                  /\ JobActs(j, u) = JobActs(ghost, u)
                  /\ \A i \in 1 .. 3 : JobActs(j, u)[i] = [code |-> 404, state |-> State]
           /\ \A w \in Workflows : OwnerOf(w) # u =>
                  /\ WorkflowReads(w, u) = WorkflowReads("w0", u)
                  /\ \A i \in 1 .. 3 : WorkflowReads(w, u)[i] = Refused(404, "Workflow not found")
                  /\ create_job_endpoint(State, PayloadOf(w, mine), u)
                         = create_job_endpoint(State, PayloadOf("w0", mine), u)
                  /\ create_job_endpoint(State, PayloadOf(w, mine), u)
                         = [response |-> Refused(404, "Workflow not found"), state |-> State]
           /\ \A f \in Files : requests[f].user_id # u =>
                  /\ get_file_info(f, u) = get_file_info(0, u)
                  /\ get_file_info(f, u) = Refused(404, "File not found")
                  /\ create_job_endpoint(State, PayloadOf(WorkflowOfUser(u), f), u)
                         = create_job_endpoint(State, PayloadOf(WorkflowOfUser(u), 0), u)
                  /\ create_job_endpoint(State, PayloadOf(WorkflowOfUser(u), f), u)
                         = [response |-> Refused(404, "File not found"), state |-> State]
           /\ \A listed \in list_jobs_endpoint(State, u).body :
                  \A job \in listed : job.user_id = u
           /\ \A w \in Workflows :
                  \A listed \in get_workflow_jobs(State, w, u).body :
                      \A job \in listed : job.user_id = u
           /\ \A j \in DOMAIN jobs \cup {ghost} :
                  /\ \A i \in 1 .. 6 : JobReads(j, u)[i].code # 403
                  /\ \A i \in 1 .. 3 : JobActs(j, u)[i].code # 403
           /\ \A w \in Workflows \cup {"w0"} :
                  \A i \in 1 .. 3 : WorkflowReads(w, u)[i].code # 403
           /\ \A f \in Files \cup {0} : get_file_info(f, u).code # 403

\* u1 has a finished job whose result its owner can download, u2 has a PENDING
\* job its owner could cancel, and each of them asks for the other's job
C18_Witness ==
    \E j, k \in DOMAIN jobs :
        /\ jobs[j].user_id = "u1" /\ jobs[k].user_id = "u2"
        /\ download_result(State, j, "u1") = Answer("manifest.json")
        /\ download_result(State, j, "u2").code = 404
        /\ cancel_job(State, k, "u2").code = 200
        /\ cancel_job(State, k, "u2").state # State
        /\ cancel_job(State, k, "u1").code = 404

\* the <<x, y>> of the tiles of an image, in the order of the enumeration
Coordinates(size) ==
    [i \in 1 .. Len(iter_tiles(size[1], size[2])) |->
        <<iter_tiles(size[1], size[2])[i][1], iter_tiles(size[1], size[2])[i][2]>>]

\* C19, as stated: a 2048 x 1024 image has the 4 tiles (0,0), (960,0), (0,960),
\* (960,960), and a job on it reports tiles_total = 4.
C19_Original ==
    /\ Coordinates(<<2048, 1024>>) = << <<0, 0>>, <<960, 0>>, <<0, 960>>, <<960, 960>> >>
    /\ \A j \in DOMAIN jobs :
           (ImageSize(jobs[j].file_id) = <<2048, 1024>> /\ jobs[j].tiles_total > 0)
               => jobs[j].tiles_total = 4

\* C19, as the enumeration is: with TILE_SIZE = 1024 and TILE_OVERLAP = 64 a
\* 2048 x 1024 image has the 6 tiles (0,0), (960,0), (1920,0), (0,960),
\* (960,960), (1920,960), in this order, and a job on it reports tiles_total = 6.
C19_SixTiles ==
    /\ Coordinates(<<2048, 1024>>)
           = << <<0, 0>>, <<960, 0>>, <<1920, 0>>, <<0, 960>>, <<960, 960>>, <<1920, 960>> >>
    /\ \A j \in DOMAIN jobs :
           (ImageSize(jobs[j].file_id) = <<2048, 1024>> /\ jobs[j].tiles_total > 0)
               => jobs[j].tiles_total = 6

\* the job on the 2048 x 1024 image has run over all its tiles and SUCCEEDED
C19_Witness ==
    \E j \in DOMAIN jobs :
        /\ ImageSize(jobs[j].file_id) = <<2048, 1024>>
        /\ jobs[j].state = SUCCEEDED
        /\ jobs[j].tiles_total > 0
        /\ jobs[j].tiles_processed = jobs[j].tiles_total
        /\ jobs[j].result_path = "manifest.json"

\* task t sets its job RUNNING in this step: it leaves its wait and enters
\* run_job, whose first statement is update_job_state(job_id, RUNNING); a task
\* that leaves its wait at a checkpoint leaves its job CANCELED
EntersRunning(t) ==
    /\ pc[t] \in Waiting
    /\ pc'[t] \notin Waiting
    /\ jobs'[t[1]].state # CANCELED

\* C20 (branch FIFO): a job that enters RUNNING is the one enqueued first
\* among the jobs of its (workflow_id, effective branch) that are enqueued and
\* have not yet run.  So of two jobs a and b of one branch, a enqueued before
\* b, b cannot enter RUNNING while a's task still waits: a entered RUNNING
\* before, or a's task returned at a checkpoint because a was canceled.
C20_BranchFifo ==
    [][\A t \in TaskIds :
          EntersRunning(t) =>
              /\ BranchKey(jobs[t[1]]) \in DOMAIN enqueue_order
              /\ enqueue_order[BranchKey(jobs[t[1]])] # <<>>
              /\ Head(enqueue_order[BranchKey(jobs[t[1]])]) = t]_vars

\* a job of a branch is RUNNING and two others wait for the branch lock, the
\* job with the greater id enqueued first; then the first of the two runs
C20_Witness ==
    \E key \in DOMAIN branch_locks :
        LET lock == branch_locks[key]
        IN /\ lock.owner # NoTask
           /\ jobs[lock.owner[1]].state = RUNNING
           /\ Len(lock.waiters) = 2
           /\ lock.waiters[1][1] > lock.waiters[2][1]
           /\ enqueue_order[key] = lock.waiters

\* C21 (no starvation): under SpecStarve, where every executor run ends and
\* every task that can go on does, a worker task that waits (its job is
\* enqueued) eventually enters run_job, unless its job is canceled; whatever
\* the other users send, retries and starts without end included.
C21_NoStarvation ==
    \A t \in TaskIds :
        (pc[t] \in Waiting) ~> (pc[t] \notin Waiting \/ StateOf(t[1]) = CANCELED)

\* the reasons queue_status gives for job j
WaitingFor(j) ==
    {get_queue_status_for_job(State, j).waiting_for[i] :
        i \in 1 .. Len(get_queue_status_for_job(State, j).waiting_for)}

\* job j is enqueued, its user holds no user slot and all slots are taken
UserBlocked(j) ==
    /\ j \in scheduled
    /\ jobs[j].user_id \notin active_user_ids
    /\ Cardinality(active_user_ids) >= MAX_ACTIVE_USERS

PermitBlocked(t) == pc[t] = "permit" /\ t \notin permit

\* C23 (worker cap): whenever the task of a PENDING job is blocked waiting for
\* a permit of the worker semaphore, the job's queue status names WORKER; and
\* in every state in which all MAX_WORKERS permits are taken, _active_workers
\* equals MAX_WORKERS.
C23_WorkerCap ==
    /\ \A t \in TaskIds :
           (PermitBlocked(t) /\ jobs[t[1]].state = PENDING) => "WORKER" \in WaitingFor(t[1])
    /\ workers.value = 0 => active_workers = MAX_WORKERS

\* C24: for a PENDING job queue_status has queued true and waiting_for holds
\* BRANCH iff another job of its (workflow_id, effective branch) is RUNNING,
\* USER_SLOT iff its user is not active and the active set is full, WORKER iff
\* active_workers >= MAX_WORKERS, and nothing else; for a job in another state
\* queued is false and waiting_for is empty.
C24_QueueStatus ==
    \A j \in DOMAIN jobs :
        LET q == get_queue_status_for_job(State, j)
        IN IF jobs[j].state = PENDING
           THEN /\ q.queued
                /\ WaitingFor(j) \subseteq {"BRANCH", "USER_SLOT", "WORKER"}
                /\ "BRANCH" \in WaitingFor(j)
                       <=> \E k \in DOMAIN jobs : SameBranch(j, k) /\ jobs[k].state = RUNNING
                /\ "USER_SLOT" \in WaitingFor(j)
                       <=> /\ jobs[j].user_id \notin active_user_ids
                           /\ Cardinality(active_user_ids) >= MAX_ACTIVE_USERS
                /\ "WORKER" \in WaitingFor(j) <=> active_workers >= MAX_WORKERS
           ELSE ~q.queued /\ q.waiting_for = <<>>

\* a PENDING job waits behind a RUNNING job of its branch and reports BRANCH
\* and WORKER, another PENDING job reports USER_SLOT, and the RUNNING job
\* reports nothing
C24_Witness ==
    \E a, b, c \in DOMAIN jobs :
        /\ jobs[a].state = RUNNING /\ jobs[b].state = PENDING /\ jobs[c].state = PENDING
        /\ WaitingFor(b) = {"BRANCH", "WORKER"}
        /\ WaitingFor(c) = {"USER_SLOT", "WORKER"}
        /\ WaitingFor(a) = {}

\* C25: the stream of a job delivers every state change: a state the job
\* leaves while the stream is in its loop has been yielded by the stream, so
\* the stream's last payload shows the state that is left.
C25_EveryChange ==
    [][\A j \in DOMAIN jobs :
          (/\ stream.kind = "job" /\ stream.id = j /\ stream.pc = "sleep"
           /\ jobs'[j].state # jobs[j].state)
              => \E p \in stream.last_payload : p.state = jobs[j].state]_vars

\* the stream yields a payload in this step
Yields == stream'.sent # 0

\* C26: the first pass of a stream's loop yields the current snapshot; a later
\* pass yields the current snapshot exactly when it differs from the payload
\* yielded last (which last_payload is), so no payload is yielded twice in a row.
C26_ChangeDriven ==
    [][(stream.pc \in {"open", "sleep"} /\ stream' # Quiet(stream)) =>
          /\ stream.pc = "open" => Yields
          /\ Yields <=> Payload(stream, jobs) \notin stream.last_payload
          /\ Yields => stream'.last_payload = {Payload(stream, jobs)}
          /\ stream'.last_payload # stream.last_payload => Yields]_vars

\* a stream that yielded its first snapshot earlier has just yielded another
\* payload, and sleeps
C26_Witness ==
    /\ stream.pc = "sleep"
    /\ stream.sent = 2
    /\ stream.last_payload = {Payload(stream, jobs)}

\* the state of the entity a stream observes
ObservedState ==
    IF stream.kind = "job" THEN jobs[stream.id].state
    ELSE IF stream.kind = "workflow" THEN get_workflow_info(jobs, stream.id).state
    ELSE None

\* C27: a stream that has ended has yielded, as its last payload, one with a
\* state that ends it (SUCCEEDED, FAILED or CANCELED for a job; SUCCEEDED or
\* FAILED for a workflow), so it never ends on a non-terminal payload; and under
\* FairStreams a stream in its loop ends, unless the entity leaves its
\* terminal state again.
C27_Termination ==
    /\ [](stream.pc = "ended" => \E p \in stream.last_payload : p.state \in EndStates(stream.kind))
    /\ (stream.pc \in {"open", "sleep"})
           ~> (stream.pc = "ended" \/ ObservedState \notin EndStates(stream.kind))

\* the stream of a workflow has ended on FAILED, and a retry has since taken
\* the workflow out of FAILED
C27_Witness ==
    /\ stream.pc = "ended"
    /\ stream.kind = "workflow"
    /\ \E p \in stream.last_payload : p.state = FAILED
    /\ ObservedState # FAILED

\* C28: get_job returns a snapshot: the record a caller got from get_job does
\* not change when the store is mutated afterwards; what the caller reads in
\* it is what it held when it was returned.
C28_Snapshot == \A h \in held : Fields(jobs, h.ref) = h.seen

\* task t passes a checkpoint in this step: it leaves its wait holding the gate
\* it waited for (a task that starts and finds its branch lock taken goes to
\* wait for it and reads nothing) and re-reads its job (lines 66, 73, 78)
ReReads(t) == pc[t] \in Waiting /\ pc'[t] # pc[t] /\ pc'[t] # "branch"

\* C29 as stated: the CANCELED branches of the three checkpoints are
\* unreachable: no worker task re-reads its job and finds it CANCELED.
C29_Original ==
    [][\A t \in TaskIds : ReReads(t) => jobs[t[1]].state # CANCELED]_vars

\* C29, amended: a worker task that re-reads its job at a checkpoint finds it
\* PENDING or CANCELED, and never RUNNING, SUCCEEDED or FAILED; CANCELED is
\* found when the job was canceled after its start request, and the task then
\* ends without entering run_job.
C29_PendingOrCanceled ==
    [][\A t \in TaskIds :
          ReReads(t) => /\ jobs[t[1]].state \in {PENDING, CANCELED}
                        /\ jobs[t[1]].state = CANCELED => pc'[t] = "none" /\ jobs' = jobs]_vars

\* a task has been handed its branch lock while its job is CANCELED: its next
\* step is the first checkpoint
C29_Witness ==
    \E t \in TaskIds :
        /\ pc[t] = "branch" /\ branch_locks[BranchKey(jobs[t[1]])].owner = t
        /\ jobs[t[1]].state = CANCELED

\* task t calls _acquire_user_slot in this step: it passes the first
\* checkpoint (line 66) with a job that is not CANCELED
CallsAcquire(t) ==
    /\ pc[t] \in {"ready", "branch"} /\ pc'[t] # pc[t] /\ pc'[t] # "branch"
    /\ jobs[t[1]].state # CANCELED

\* C30: a task that calls _acquire_user_slot while its user is in
\* _active_user_ids does not wait, even when the set is full: it counts itself
\* for the user and goes on; a task goes to wait at the user gate only when its
\* user is not active and the set is full, and it leaves the wait only when
\* its user is active or the set is not full.
C30_UserGate ==
    [][\A t \in TaskIds :
          pc[t] \in Waiting =>
              LET u == jobs[t[1]].user_id
              IN /\ (CallsAcquire(t) /\ u \in active_user_ids)
                     => /\ pc'[t] # "user"
                        /\ pc'[t] # "none"
                             => /\ t \in acquired_user_slot'
                                /\ CountOf(active_user_counts', u)
                                       = CountOf(active_user_counts, u) + 1
                                /\ active_user_ids' = active_user_ids
                 /\ (pc[t] # "user" /\ pc'[t] = "user")
                     => /\ u \notin active_user_ids
                        /\ Cardinality(active_user_ids) >= MAX_ACTIVE_USERS
                 /\ (pc[t] = "user" /\ pc'[t] # "user")
                     => \/ u \in active_user_ids
                        \/ Cardinality(active_user_ids) < MAX_ACTIVE_USERS]_vars

\* the active-user set is full and one of its users is counted twice: a second
\* task of that user has passed the gate
C30_Witness ==
    /\ Cardinality(active_user_ids) = MAX_ACTIVE_USERS
    /\ \E u \in active_user_ids : CountOf(active_user_counts, u) >= 2

Ceil(a, b) == (a + b - 1) \div b

\* C31: for every image of width, height >= 1 and settings with
\* 0 <= TILE_OVERLAP < TILE_SIZE, iter_tiles ends and yields, row by row, the
\* tiles at the multiples of step = TILE_SIZE - TILE_OVERLAP below width and
\* height, each of size (min(TILE_SIZE, width - x), min(TILE_SIZE, height - y));
\* their count (tiles_total) is ceil(width/step) * ceil(height/step), every
\* tile lies inside the image, and every pixel lies in at least one tile.
C31_TileEnumeration ==
    tiling.done =>
        LET step == tiling.cfg[1] - tiling.cfg[2]
            nx == Ceil(tiling.img_w, step)
            ny == Ceil(tiling.img_h, step)
            T == tiling.tiles
        IN /\ tiling.total = nx * ny
           /\ Len(T) = nx * ny
           /\ \A i \in 1 .. Len(T) :
                  LET x == ((i - 1) % nx) * step
                      y == ((i - 1) \div nx) * step
                  IN /\ T[i] = <<x, y, Min(tiling.cfg[1], tiling.img_w - x),
                                       Min(tiling.cfg[1], tiling.img_h - y)>>
                     /\ x < tiling.img_w /\ y < tiling.img_h
           /\ \A i \in 1 .. Len(T) :
                  /\ T[i][1] >= 0 /\ T[i][2] >= 0 /\ T[i][3] >= 1 /\ T[i][4] >= 1
                  /\ T[i][1] + T[i][3] <= tiling.img_w
                  /\ T[i][2] + T[i][4] <= tiling.img_h
           /\ \A px \in 0 .. tiling.img_w - 1, py \in 0 .. tiling.img_h - 1 :
                  \E i \in 1 .. Len(T) :
                      /\ T[i][1] <= px /\ px < T[i][1] + T[i][3]
                      /\ T[i][2] <= py /\ py < T[i][2] + T[i][4]

\* an enumeration of several rows and columns with overlapping tiles, whose
\* last column and last row are clipped at the border of the image
C31_Witness ==
    /\ tiling.done
    /\ tiling.cfg = <<3, 1>> /\ tiling.img_w = 7 /\ tiling.img_h = 5
    /\ tiling.total = 12
    /\ tiling.tiles[4] = <<6, 0, 1, 3>>
    /\ tiling.tiles[12] = <<6, 4, 1, 1>>

\* the live worker tasks, those that have taken a user slot and not given it
\* back (they are past line 72 and have not reached line 89), and those that
\* have a permit of _workers: acquire() has returned for them, or has handed
\* them the permit of a task that left and they are about to resume
Live == {t \in TaskIds : pc[t] # "none"}
PastUserGate == {t \in TaskIds : pc[t] \in {"permit", "tile", "preview"}}
InsideSemaphore == {t \in TaskIds : pc[t] \in {"tile", "preview"} \/ (pc[t] = "permit" /\ t \in permit)}

\* C32: _active_user_ids is exactly the set of the users with a count >= 1;
\* a user's count is the number of live tasks of that user that have taken a
\* user slot and not released it; the permits taken from _workers are as many
\* as the tasks inside "async with _workers"; and when no worker task is live,
\* _active_user_ids and _scheduled are empty, _active_workers is 0, all
\* permits are free and every branch lock is unlocked.
C32_Accounting ==
    /\ active_user_ids = DOMAIN active_user_counts
    /\ \A u \in Users :
           /\ u \in active_user_ids <=> CountOf(active_user_counts, u) >= 1
           /\ CountOf(active_user_counts, u)
                  = Cardinality({t \in PastUserGate : jobs[t[1]].user_id = u})
    /\ acquired_user_slot = PastUserGate
    /\ permit = InsideSemaphore
    /\ MAX_WORKERS - workers.value = Cardinality(InsideSemaphore)
    /\ Live = {}
           => /\ active_user_ids = {} /\ scheduled = {} /\ active_workers = 0
              /\ workers.value = MAX_WORKERS /\ workers.waiters = <<>>
              /\ \A k \in DOMAIN branch_locks : branch_locks[k] = FreeLock

\* no worker task is live after one job ran to the end, one failed and one
\* was canceled while its task waited
C32_Witness ==
    /\ Live = {}
    /\ \E a, b, c \in DOMAIN jobs :
           /\ jobs[a].state = SUCCEEDED /\ jobs[b].state = FAILED /\ jobs[c].state = CANCELED
    /\ DOMAIN branch_locks # {}

\* task t is inside run_job
InRunJob(t) == pc[t] \in {"tile", "preview"}

\* C33: every job that enters RUNNING eventually is SUCCEEDED or FAILED,
\* whatever the executor's steps meet (a failure to make the job directory
\* and a failing write of error.json included), and no job is RUNNING without
\* a worker task inside run_job.
C33_RunningEnds ==
    \A j \in JobIds :
        /\ [](StateOf(j) = RUNNING => \E t \in TasksOf(j) : InRunJob(t))
        /\ (StateOf(j) = RUNNING) ~> (StateOf(j) \in {SUCCEEDED, FAILED})

\* C34: under SpecCalls, a step that makes a job RUNNING finds that enqueue_job
\* was called for it since it last became PENDING: no worker task created
\* for an earlier start runs a job that was canceled and reset by retry
\* without a new start request.
C34_RunsOnlyEnqueued ==
    [][\A j \in DOMAIN jobs :
          (jobs[j].state # RUNNING /\ jobs'[j].state = RUNNING) => j \in enqueued.jobs]_vars

====
